---- MODULE Spec2Model ----
(***************************************************************************)
(* A model of the data-generated-cube pipeline: the quota based cube       *)
(* creation (CubeCreator) and the rating lookup with its cache             *)
(* (ELOFetcher).                                                           *)
(*                                                                         *)
(* Card names, blacklist lines and Scryfall keys are sequences of          *)
(* characters, so that str.strip and the regular expressions of the code   *)
(* are computed, not assumed.                                              *)
(***************************************************************************)
EXTENDS Integers, Sequences, FiniteSets, TLC

VARIABLES
    frame,          \* make_cube's frame: a sequence of rows [name, color]
    cubes,          \* number of *.csv files in the cube directory
    card_count,     \* CubeCreator.card_count
    blacklist,      \* None (no blacklist_path) or the lines of the blacklist file
    stage,          \* which CubeCreator method has been called on the inputs
    color_counts,   \* what get_color_counts returned
    filtered,       \* what remove_blacklist_cards returned
    cube,           \* the rows make_cube returned
    cards_txt,      \* the names make_cube wrote to <path>_cards.txt
    error,          \* the exception that left the called method, or NoException
    now,            \* the clock, in ticks
    elo_cache,      \* ELOFetcher.elo_cache
    scryfall_cache, \* ELOFetcher.scryfall_cache
    pages,          \* the Cube Cobra page of each printing id
    elo_call,       \* the last call of get_card_elo: its argument and outcome
    batch,          \* the lookups of a run: "running", "aborted"; the phase of
                    \* update_elo_scores: "gather", "loop", "done", "aborted"
    lookup,         \* the last Scryfall / Cube Cobra lookup: argument and outcome
    elo_pickle,     \* the contents of the file elo_cache.pickle
    tasks,          \* the cards update_elo_scores has still to look up in its phase
    fetched,        \* the cards whose rating a completed lookup fetched in this run
    pipeline,       \* a pipeline's run(): its position and what its stages did
    data_dir,       \* the default-cards* files of ScryfallCache.data_dir, in glob order
    scryfall_run,   \* a call of get_scryfall_cache: its position and outcome
    call            \* the last call of a function checked alone: arguments, outcome

cubeVars == <<frame, cubes, card_count, blacklist, stage, color_counts,
              filtered, cube, cards_txt, error>>

eloVars == <<now, elo_cache, scryfall_cache, pages, elo_call, batch, lookup>>

runVars == <<elo_pickle, tasks, fetched, pipeline, data_dir, scryfall_run, call>>

vars == <<cubeVars, eloVars, runVars>>

(* Python's None, among values that are records: cache entries, ratings.  *)
None == [type |-> "NoneType"]

(* A float. *)
Float(x) == [type |-> "float", v |-> x]

(* No exception left the call. *)
NoException == ""

(* None where a string is expected: like the empty string, it is falsy.   *)
NoName == <<>>

Min(a, b) == IF a < b THEN a ELSE b

(***************************************************************************)
(* Bounds of the model.                                                    *)
(***************************************************************************)
MaxRows == 3        \* rows of the combined frame
MaxCubes == 2       \* *.csv files in the cube directory
MaxCardCount == 3   \* the small card counts
FloatCardCount == 49 \* one larger card count, where avg / n * n rounds down
MaxId == 2          \* printing ids

PageIds == 1..MaxId

(* Before the first call of get_card_elo, and before the first lookup. *)
NoCall == [card |-> <<>>]
NoLookup == [op |-> "none"]

(* Nothing but the rating lookups and the cube creation is going on. *)
RunIdle ==
    /\ elo_pickle = <<>>
    /\ tasks = {}
    /\ fetched = {}
    /\ pipeline = [pc |-> "idle"]
    /\ data_dir = <<>>
    /\ scryfall_run = [pc |-> "idle"]
    /\ call = [op |-> "none"]

(***************************************************************************)
(* Characters and names.                                                   *)
(***************************************************************************)
Whitespace == {" ", "\n"}

(* str.strip(): leading and trailing whitespace removed. *)
RECURSIVE lstrip(_)
lstrip(s) ==
    IF s # <<>> /\ Head(s) \in Whitespace THEN lstrip(Tail(s)) ELSE s

RECURSIVE rstrip(_)
rstrip(s) ==
    IF s # <<>> /\ s[Len(s)] \in Whitespace
    THEN rstrip(SubSeq(s, 1, Len(s) - 1)) ELSE s

strip(s) == rstrip(lstrip(s))

(***************************************************************************)
(* ScryfallCache.cache: an ordered dictionary, key -> list of printings.   *)
(* It is a sequence of entries [name, versions]; a dictionary iterates in  *)
(* insertion order.  A printing is a record; Scryfall's printings carry an *)
(* "id", a malformed one does not.                                         *)
(***************************************************************************)
EmptyDict == <<>>

HasKey(sc, key) == \E i \in DOMAIN sc : sc[i].name = key

(* self.scryfall_cache.get(key, default) *)
ScryfallGet(sc, key, default) ==
    IF HasKey(sc, key)
    THEN sc[CHOOSE i \in DOMAIN sc : sc[i].name = key].versions
    ELSE default

(* Truth value of a string or a list (None included, as the empty one). *)
Truthy(x) == x # <<>>

(***************************************************************************)
(* ELOFetcher.get_extended_name: the two regular expressions.  Names hold  *)
(* no regular-expression metacharacters.                                   *)
(***************************************************************************)
OccursAt(p, s, i) ==
    /\ i >= 1
    /\ i + Len(p) - 1 <= Len(s)
    /\ \A j \in 1..Len(p) : s[i + j - 1] = p[j]

(* s[i .. i+k-1] is whitespace (\s*, with k characters) *)
SpacesAt(s, i, k) ==
    /\ i + k - 1 <= Len(s)
    /\ \A j \in 0..(k - 1) : s[i + j] \in Whitespace

Slashes == <<"/", "/">>

(* re.match(f"{name}\s*\/\/.*", card) *)
MatchesExtendedName(name, card) ==
    /\ OccursAt(name, card, 1)
    /\ \E k \in 0..Len(card) :
          /\ SpacesAt(card, Len(name) + 1, k)
          /\ OccursAt(Slashes, card, Len(name) + 1 + k)

(* re.match(f".*?\/\/\s*{name}", card): no anchor after the name *)
MatchesPostExtendedName(name, card) ==
    \E i \in 1..Len(card) :
        /\ \A j \in 1..(i - 1) : card[j] # "\n"
        /\ OccursAt(Slashes, card, i)
        /\ \E k \in 0..Len(card) :
              /\ SpacesAt(card, i + 2, k)
              /\ OccursAt(name, card, i + 2 + k)

FirstIndex(S) == CHOOSE i \in S : \A j \in S : i <= j

get_extended_name(name, sc) ==
    LET pre  == {i \in DOMAIN sc : MatchesExtendedName(name, sc[i].name)}
        post == {i \in DOMAIN sc : MatchesPostExtendedName(name, sc[i].name)}
    IN IF pre # {} THEN sc[FirstIndex(pre)].name
       ELSE IF post # {} THEN sc[FirstIndex(post)].name
       ELSE NoName

(***************************************************************************)
(* ELOFetcher: the lookup of a rating on Cube Cobra.  Every operator       *)
(* yields a record: raised (the exception leaving it, "" for none), value,  *)
(* and what else the callers need.                                         *)
(***************************************************************************)
(* max(card_versions, key=lambda card: card["id"]) *)
MaxCard(card_versions) ==
    IF \E i \in DOMAIN card_versions : "id" \notin DOMAIN card_versions[i]
    THEN [raised |-> "KeyError", value |-> EmptyDict, calls |-> 0]
    ELSE [raised |-> NoException, calls |-> 0,
          value |-> card_versions[FirstIndex(
              {i \in DOMAIN card_versions :
                  \A j \in DOMAIN card_versions :
                      card_versions[j].id <= card_versions[i].id})]]

(* calls: the number of activations of the function, the first included *)
Activation(r) == [r EXCEPT !.calls = @ + 1]

(* lines 103-118: the versions found, or the function was called with the    *)
(* extended name                                                             *)
MaxOfVersions(card_versions) ==
    IF Truthy(card_versions)
    THEN [MaxCard(card_versions) EXCEPT !.calls = 1]
    ELSE \* line 117 reads scryfall_data, a name that is never bound
         [raised |-> "NameError", value |-> EmptyDict, calls |-> 1]

RECURSIVE get_card_by_name_with_max_id(_, _, _)

(* lines 94-101: the name has no versions and is not an extended name *)
WithExtendedName(ext, sc) ==
    IF Truthy(ext)
    THEN Activation(get_card_by_name_with_max_id(ext, TRUE, sc))
    ELSE [raised |-> NoException, value |-> EmptyDict, calls |-> 1]

get_card_by_name_with_max_id(name, extended_name, sc) ==
    IF ~Truthy(ScryfallGet(sc, name, <<>>)) /\ ~extended_name
    THEN WithExtendedName(get_extended_name(name, sc), sc)
    ELSE MaxOfVersions(ScryfallGet(sc, name, <<>>))

(* The Cube Cobra page of a printing: a rating, no "elo" in it, or the     *)
(* request fails.                                                          *)
NoElo == [kind |-> "no elo"]
Fail == [kind |-> "fail"]
Elo(x) == [kind |-> "elo", elo |-> x]

get_elo_from_id_async(card_id, pg) ==
    IF pg[card_id] = Fail
    THEN [raised |-> "ClientError", value |-> None, requests |-> <<card_id>>]
    ELSE IF pg[card_id] = NoElo
         THEN [raised |-> NoException, value |-> None, requests |-> <<card_id>>]
         ELSE [raised |-> NoException, value |-> Float(pg[card_id].elo),
               requests |-> <<card_id>>]

RECURSIVE try_multiple_ids_for_elo(_, _)

Prepend(requests, r) == [r EXCEPT !.requests = requests \o @]

(* lines 169-171: the rating of one printing, or on to the next printing *)
TryNext(e, rest, pg) ==
    IF e.raised # NoException \/ e.value # None THEN e
    ELSE Prepend(e.requests, try_multiple_ids_for_elo(rest, pg))

try_multiple_ids_for_elo(card_versions, pg) ==
    IF card_versions = <<>>
    THEN [raised |-> NoException, value |-> None, requests |-> <<>>]
    ELSE IF "id" \notin DOMAIN Head(card_versions)
         THEN [raised |-> "KeyError", value |-> None, requests |-> <<>>]
         ELSE TryNext(get_elo_from_id_async(Head(card_versions).id, pg),
                      Tail(card_versions), pg)

DefaultElo == 1200
NoEntryElo == -1

(* lines 77-86 of get_card_elo_from_cube_cobra, scryfall_data in hand *)
EloOfScryfallData(scryfall_data, card_versions, pg) ==
    IF scryfall_data.raised # NoException
    THEN [raised |-> scryfall_data.raised, value |-> None, requests |-> <<>>]
    ELSE IF "id" \in DOMAIN scryfall_data.value
         THEN get_elo_from_id_async(scryfall_data.value.id, pg)
         ELSE IF Truthy(card_versions)
              THEN try_multiple_ids_for_elo(card_versions, pg)
              ELSE [raised |-> NoException, value |-> Float(DefaultElo),
                    requests |-> <<>>]

get_card_elo_from_cube_cobra(card_name, sc, pg) ==
    EloOfScryfallData(get_card_by_name_with_max_id(card_name, FALSE, sc),
                      ScryfallGet(sc, card_name, <<>>), pg)

(***************************************************************************)
(* ELOFetcher: the rating cache, a dictionary card name -> entry.          *)
(***************************************************************************)
TicksPerDay == 2

(* timedelta.days *)
Days(ticks) == ticks \div TicksPerDay

(* self.elo_cache.get(card_name) *)
CacheGet(cache, card_name) ==
    IF card_name \in DOMAIN cache THEN cache[card_name] ELSE None

CachePut(cache, card_name, entry) ==
    [k \in DOMAIN cache \cup {card_name} |->
        IF k = card_name THEN entry ELSE cache[k]]

(* update_card_elo without the test of line 58: the entry is always replaced *)
StoreEloOverwriting(card_name, cache, e, t) ==
    IF e.raised = "KeyError"
    THEN [raised |-> NoException, cache |-> cache, requests |-> e.requests]
    ELSE IF e.raised # NoException
         THEN [raised |-> e.raised, cache |-> cache, requests |-> e.requests]
         ELSE [raised |-> NoException, requests |-> e.requests,
               cache |-> CachePut(cache, card_name,
                            [elo |-> e.value, lastUpdated |-> t])]

(* lines 58-73 of update_card_elo, with e the outcome of the lookup: only a  *)
(* KeyError is caught.                                                       *)
StoreElo(card_name, cache, e, t) ==
    IF e.raised = "KeyError"
    THEN [raised |-> NoException, cache |-> cache, requests |-> e.requests]
    ELSE IF e.raised # NoException
         THEN [raised |-> e.raised, cache |-> cache, requests |-> e.requests]
         ELSE IF e.value # None \/ card_name \notin DOMAIN cache
              THEN [raised |-> NoException, requests |-> e.requests,
                    cache |-> CachePut(cache, card_name,
                                 [elo |-> e.value, lastUpdated |-> t])]
              ELSE [raised |-> NoException, requests |-> e.requests,
                    cache |-> CachePut(cache, card_name,
                                 [cache[card_name] EXCEPT !.lastUpdated = t])]

update_card_elo(card_name, cache, sc, pg, t) ==
    StoreElo(card_name, cache, get_card_elo_from_cube_cobra(card_name, sc, pg), t)

StaleDays == 1

(* line 42 with >= in the place of >: an entry is refreshed a day early *)
UpdatedAtLeastStaleDaysAgo(cache_data, today) ==
    /\ cache_data # None
    /\ Days(today - cache_data.lastUpdated) >= StaleDays

(* cube_updated_more_than_a_week_ago *)
UpdatedMoreThanAWeekAgo(cache_data, today) ==
    /\ cache_data # None
    /\ Days(today - cache_data.lastUpdated) > StaleDays

NeedsUpdate(cache_data, today) ==
    \/ cache_data = None
    \/ cache_data.elo = None
    \/ UpdatedMoreThanAWeekAgo(cache_data, today)

(* lines 46-51 of get_card_elo, with u the outcome of update_card_elo *)
AfterUpdate(card_name, u) ==
    IF u.raised # NoException
    THEN [raised |-> u.raised, value |-> None,
          cache |-> u.cache, requests |-> u.requests]
    ELSE IF CacheGet(u.cache, card_name) = None
         THEN [raised |-> NoException, value |-> Float(NoEntryElo),
               cache |-> u.cache, requests |-> u.requests]
         ELSE [raised |-> NoException, value |-> u.cache[card_name].elo,
               cache |-> u.cache, requests |-> u.requests]

get_card_elo(card_name, cache, sc, pg, today) ==
    IF NeedsUpdate(CacheGet(cache, card_name), today)
    THEN AfterUpdate(card_name, update_card_elo(card_name, cache, sc, pg, today))
    ELSE [raised |-> NoException, value |-> cache[card_name].elo,
          cache |-> cache, requests |-> <<>>]

(***************************************************************************)
(* CubeCreator: the quota allocation.                                      *)
(***************************************************************************)
COLORS_SET ==
    {"White", "Blue", "Black", "Red", "Green", "Multicolored", "Colorless", "Land"}

(* CARD_COLOR_MAP restricted to the keys count_card_frequencies looks up. *)
CARD_COLOR_MAP == [c \in COLORS_SET |-> c]

(* The order in which adjust_color_counts hands out the missing cards. *)
ADJUST_ORDER == <<"Blue", "Colorless", "Black", "Red", "Green", "White", "Land">>

RECURSIVE SumOver(_, _)
SumOver(f, S) ==
    IF S = {} THEN 0
    ELSE LET x == CHOOSE y \in S : TRUE IN f[x] + SumOver(f, S \ {x})

(* sum(color_counts.values()) *)
SumCounts(counts) == SumOver(counts, DOMAIN counts)

(* The pairs <<a, n>> with a <= 8 and 1 <= n <= 64 for which the IEEE-754    *)
(* double computation int(a / n * n) yields a - 1 instead of a (for every    *)
(* other pair in that range it yields a).                                    *)
FloatShortfall ==
    {<<1, 49>>, <<2, 49>>, <<3, 47>>, <<4, 49>>, <<6, 47>>, <<7, 55>>, <<8, 49>>}

(* int(normalized_percent * card_count), normalized_percent = a / card_count *)
NormalizeFloat(a, n) == IF <<a, n>> \in FloatShortfall THEN a - 1 ELSE a

get_normalized_card_count(color, fr, number_of_sampled_cubes, n) ==
    LET color_subset_frame == {i \in DOMAIN fr : fr[i].color = color}
        average_cards_in_cube_per_color ==
            Cardinality(color_subset_frame) \div number_of_sampled_cubes
    IN NormalizeFloat(average_cards_in_cube_per_color, n)

(* The while loop of adjust_color_counts: position i of the inner for loop. *)
RECURSIVE adjust_from(_, _, _)
adjust_from(counts, n, i) ==
    IF SumCounts(counts) < n
    THEN adjust_from([counts EXCEPT ![ADJUST_ORDER[i]] = @ + 1], n,
                     (i % Len(ADJUST_ORDER)) + 1)
    ELSE counts

(* one pass of the for loop, as if line 112 read "if" *)
RECURSIVE adjust_once_from(_, _, _)
adjust_once_from(counts, n, i) ==
    IF SumCounts(counts) < n /\ i <= Len(ADJUST_ORDER)
    THEN adjust_once_from([counts EXCEPT ![ADJUST_ORDER[i]] = @ + 1], n, i + 1)
    ELSE counts

adjust_color_counts_one_pass(counts, n) == adjust_once_from(counts, n, 1)

adjust_color_counts(counts, n) == adjust_from(counts, n, 1)

(* get_color_counts: the result, or the exception raised by the division    *)
(* by card_count in get_normalized_card_count.                               *)
get_color_counts(fr, number_of_sampled_cubes, n) ==
    IF n = 0
    THEN [raised |-> "ZeroDivisionError", value |-> [c \in COLORS_SET |-> 0]]
    ELSE [raised |-> NoException,
          value |-> adjust_color_counts(
              [c \in COLORS_SET |->
                  get_normalized_card_count(c, fr, number_of_sampled_cubes, n)], n)]

(***************************************************************************)
(* CubeCreator: the blacklist and the selection.                           *)
(***************************************************************************)
(* The rows of a frame kept by a row filter, in order. *)
RECURSIVE SelectRows(_, _)
SelectRows(fr, keep) ==
    IF fr = <<>> THEN <<>>
    ELSE IF Head(fr).name \in keep
         THEN <<Head(fr)>> \o SelectRows(Tail(fr), keep)
         ELSE SelectRows(Tail(fr), keep)

(* blacklist_path is None: no lines are read.  A configured blacklist is  *)
(* the set of the lines of its file.                                       *)
NoBlacklist == [type |-> "NoneType"]
Configured(lines) == [type |-> "file", lines |-> lines]

FrameNames(fr) == {fr[i].name : i \in DOMAIN fr}

(* remove_blacklist_cards as it would be without the strip() of line 126:   *)
(* the lines keep their newline.                                           *)
remove_blacklist_cards_unstripped(fr, bl) ==
    IF bl = NoBlacklist THEN fr
    ELSE SelectRows(fr, FrameNames(fr) \ bl.lines)

remove_blacklist_cards(fr, bl) ==
    IF bl = NoBlacklist THEN fr
    ELSE LET blacklist_cards == {strip(line) : line \in bl.lines}
         IN SelectRows(fr, FrameNames(fr) \ blacklist_cards)

count_card_frequencies(fr, color) ==
    LET names == {fr[i].name : i \in {j \in DOMAIN fr : fr[j].color = CARD_COLOR_MAP[color]}}
    IN [nm \in names |->
           Cardinality({i \in DOMAIN fr : fr[i].color = CARD_COLOR_MAP[color]
                                          /\ fr[i].name = nm})]

(* round(Frequency / number_of_sampled_cubes, 4), in ten-thousandths. *)
calculate_card_inclusion_rate(frequency, number_of_sampled_cubes) ==
    LET q == (frequency * 10000) \div number_of_sampled_cubes
        r == (frequency * 10000) % number_of_sampled_cubes
    IN IF 2 * r > number_of_sampled_cubes THEN q + 1
       ELSE IF 2 * r < number_of_sampled_cubes THEN q
       ELSE IF q % 2 = 0 THEN q ELSE q + 1

(* get_elo_scores: get_card_elo is a coroutine function and line 196 calls  *)
(* it without await, so the ELO column of a card holds a coroutine object  *)
(* that never runs; the rating cache is not touched.                       *)
Coroutine(nm) == [type |-> "coroutine", card_name |-> nm]

get_elo_scores(names) == [nm \in names |-> Coroutine(nm)]

(* sort_values(['Inclusion Rate', 'ELO'], ascending=[False, False]): row x   *)
(* is strictly before row y.  Coroutine objects have no order, so the ELO    *)
(* column decides nothing: rows of equal inclusion rate come in any order,   *)
(* or the sort raises (SortMayRaise).                                        *)
Outranks(x, y) == x.InclusionRate > y.InclusionRate

(* pandas orders every key column of a sort, and ordering two coroutine      *)
(* objects raises TypeError; whether a build of pandas compares the ELO      *)
(* column at all depends on its version.  A frame of fewer than two rows is  *)
(* sorted without a comparison.                                              *)
SortMayRaise(rows) == Cardinality(rows) >= 2

(* frame[:k + 1]: a slice that is one row too long. *)
FirstRowsOneMore(rows, k) ==
    {T \in SUBSET rows :
        /\ Cardinality(T) = Min(k + 1, Cardinality(rows))
        /\ \A x \in T : \A y \in rows \ T : ~Outranks(y, x)}

(* frame[:k] of a sorted frame: every way to break the ties of the sort. *)
FirstRows(rows, k) ==
    {T \in SUBSET rows :
        /\ Cardinality(T) = Min(k, Cardinality(rows))
        /\ \A x \in T : \A y \in rows \ T : ~Outranks(y, x)}

(* make_color_frame: one row for each distinct name of the color. *)
make_color_frame(color, fr, number_of_sampled_cubes) ==
    LET card_frequencies == count_card_frequencies(fr, color)
    IN {[name |-> nm, from |-> color,
         Frequency |-> card_frequencies[nm],
         InclusionRate |-> calculate_card_inclusion_rate(card_frequencies[nm],
                                                         number_of_sampled_cubes),
         ELO |-> get_elo_scores(DOMAIN card_frequencies)[nm]]
        : nm \in DOMAIN card_frequencies}

make_colors_dict(fr, number_of_sampled_cubes) ==
    [c \in COLORS_SET |-> make_color_frame(c, fr, number_of_sampled_cubes)]

(* frame.drop_duplicates('name'): the first row of each name *)
FirstRowOf(fr, nm) == fr[FirstIndex({i \in DOMAIN fr : fr[i].name = nm})]

(* combined_frame.merge(temp, on='name') *)
MergeRow(r, fr) ==
    [name |-> r.name, from |-> r.from, Frequency |-> r.Frequency,
     InclusionRate |-> r.InclusionRate, ELO |-> r.ELO,
     ColorCategory |-> FirstRowOf(fr, r.name).color]

(* make_cube: every outcome it can have, over the ties of its sorts and    *)
(* over the sorts that may raise.                                          *)
make_cube(fr, number_of_sampled_cubes, n, bl) ==
    LET card_counts == get_color_counts(fr, number_of_sampled_cubes, n)
        blacklist_updated_frame == remove_blacklist_cards(fr, bl)
        color_frames == make_colors_dict(blacklist_updated_frame, number_of_sampled_cubes)
        all_rows == UNION {color_frames[c] : c \in COLORS_SET}
        combined_frames ==
            {T \in SUBSET all_rows :
                \A c \in COLORS_SET :
                    {r \in T : r.from = c}
                        \in FirstRows(color_frames[c], card_counts.value[c])}
        sort_raises ==
            \/ \E c \in COLORS_SET : SortMayRaise(color_frames[c])
            \/ \E combined \in combined_frames : SortMayRaise(combined)
    IN IF card_counts.raised # NoException
       THEN {[raised |-> card_counts.raised, card_counts |-> card_counts.value,
              filtered |-> <<>>, cube |-> {}, txt |-> {}]}
       ELSE {[raised |-> "TypeError", card_counts |-> card_counts.value,
              filtered |-> blacklist_updated_frame, cube |-> {}, txt |-> {}]
                : x \in IF sort_raises THEN {1} ELSE {}}
            \cup
            UNION {
              {[raised |-> NoException, card_counts |-> card_counts.value,
                filtered |-> blacklist_updated_frame,
                cube |-> {MergeRow(r, fr) : r \in final},
                txt |-> {r.name : r \in final}] : final \in FirstRows(combined, n)}
              : combined \in combined_frames}

(***************************************************************************)
(* The inputs of the cube creation.                                        *)
(***************************************************************************)
FrameCardNames == <<(<<"a">>), (<<"b">>)>>
FrameColors == <<"Blue", "Red", "Multicolored">>

NRowKinds == Len(FrameCardNames) * Len(FrameColors)

RowKind(k) ==
    [name  |-> FrameCardNames[((k - 1) \div Len(FrameColors)) + 1],
     color |-> FrameColors[((k - 1) % Len(FrameColors)) + 1]]

Frames ==
    UNION {{[i \in 1..len |-> RowKind(s[i])] : s \in [1..len -> 1..NRowKinds]}
           : len \in 0..MaxRows}

CardCounts == (0..MaxCardCount) \cup {FloatCardCount}

BlacklistLines == {<<"a", "\n">>, <<" ", "b", " ">>}

Blacklists == {NoBlacklist} \cup {Configured(L) : L \in SUBSET BlacklistLines}

ZeroCounts == [c \in COLORS_SET |-> 0]

InitCube ==
    /\ frame \in Frames
    /\ cubes \in 1..MaxCubes
    /\ card_count \in CardCounts
    /\ blacklist \in Blacklists
    /\ stage = "input"
    /\ color_counts = ZeroCounts
    /\ filtered = <<>>
    /\ cube = {}
    /\ cards_txt = {}
    /\ error = NoException
    /\ now = 0
    /\ elo_cache = <<>>
    /\ scryfall_cache = <<>>
    /\ pages = [i \in PageIds |-> NoElo]
    /\ elo_call = NoCall
    /\ batch = "running"
    /\ lookup = NoLookup
    /\ RunIdle

CallGetColorCounts ==
    /\ stage = "input"
    /\ LET r == get_color_counts(frame, cubes, card_count)
       IN /\ color_counts' = r.value
          /\ error' = r.raised
    /\ stage' = "get_color_counts"
    /\ UNCHANGED <<frame, cubes, card_count, blacklist, filtered, cube, cards_txt>>
    /\ UNCHANGED eloVars
    /\ UNCHANGED runVars

CallRemoveBlacklistCards ==
    /\ stage = "input"
    /\ filtered' = remove_blacklist_cards(frame, blacklist)
    /\ stage' = "remove_blacklist_cards"
    /\ UNCHANGED <<frame, cubes, card_count, blacklist, color_counts, cube,
                   cards_txt, error>>
    /\ UNCHANGED eloVars
    /\ UNCHANGED runVars

CallMakeCube ==
    /\ stage = "input"
    /\ \E r \in make_cube(frame, cubes, card_count, blacklist) :
          /\ color_counts' = r.card_counts
          /\ filtered' = r.filtered
          /\ cube' = r.cube
          /\ cards_txt' = r.txt
          /\ error' = r.raised
    /\ stage' = "make_cube"
    /\ UNCHANGED <<frame, cubes, card_count, blacklist>>
    /\ UNCHANGED eloVars
    /\ UNCHANGED runVars

NextCube == CallGetColorCounts \/ CallRemoveBlacklistCards \/ CallMakeCube

SpecCube == InitCube /\ [][NextCube]_vars

(***************************************************************************)
(* Properties of the cube creation, under SpecCube.                        *)
(***************************************************************************)
(* The line is the name with nothing but whitespace around it. *)
IsLineOf(nm, line) ==
    \E i \in 0..Len(line) :
        /\ i + Len(nm) <= Len(line)
        /\ \A j \in 1..i : line[j] \in Whitespace
        /\ \A j \in 1..Len(nm) : line[i + j] = nm[j]
        /\ \A j \in (i + Len(nm) + 1)..Len(line) : line[j] \in Whitespace

Listed(nm) ==
    /\ blacklist # NoBlacklist
    /\ \E line \in blacklist.lines : IsLineOf(nm, line)

(* The distinct names of the frame that the blacklist does not list. *)
Pool == {nm \in FrameNames(frame) : ~Listed(nm)}

SelectedFrom(c) == {r \in cube : r.from = c}

(* C1: for every frame, every number of sampled cubes >= 1 and every        *)
(* card_count >= 0, get_color_counts returns per-colour counts whose sum is  *)
(* exactly card_count.                                                       *)
ColorCountsSumToCardCount ==
    stage = "get_color_counts"
        => error = NoException /\ SumCounts(color_counts) = card_count

(* C2: make_cube returns at most card_count cards, and of each colour        *)
(* category at most get_color_counts[colour] cards come from that colour's   *)
(* ranking.                                                                  *)
CubeRespectsQuotas ==
    stage = "make_cube" /\ error = NoException
        => /\ Cardinality(cube) <= card_count
           /\ \A c \in COLORS_SET : Cardinality(SelectedFrom(c)) <= color_counts[c]

(* A cube with cards in which a colour's quota cut its ranking short: the    *)
(* colour has more cards than its quota, and exactly the quota is taken.     *)
QuotaCutsRanking ==
    /\ stage = "make_cube"
    /\ error = NoException
    /\ cube # {}
    /\ \E c \in COLORS_SET :
          /\ Cardinality(SelectedFrom(c)) = color_counts[c]
          /\ Cardinality({nm \in Pool :
                 \E i \in DOMAIN frame : frame[i].name = nm
                                         /\ frame[i].color = CARD_COLOR_MAP[c]})
                > color_counts[c]

(* C3: make_cube returns exactly card_count cards whenever the               *)
(* non-blacklisted pool holds at least card_count distinct card names.       *)
CubeHasCardCountCards ==
    stage = "make_cube" /\ card_count >= 1 /\ Cardinality(Pool) >= card_count
        => error = NoException /\ Cardinality(cube) = card_count

(* C4: with a blacklist configured, no card whose name it lists is in the    *)
(* cube make_cube returns nor in the card list it writes; with none          *)
(* configured, remove_blacklist_cards returns the frame unchanged.           *)
BlacklistRespected ==
    /\ stage = "make_cube"
          => \A nm \in FrameNames(frame) :
                Listed(nm) => /\ nm \notin cards_txt
                              /\ \A r \in cube : r.name # nm
    /\ stage = "remove_blacklist_cards" /\ blacklist = NoBlacklist
          => filtered = frame

(* A cube made from a frame that holds a listed card and another one. *)
BlacklistedCardLeftOut ==
    /\ stage = "make_cube"
    /\ \E nm \in FrameNames(frame) : Listed(nm)
    /\ cube # {}
    /\ cards_txt # {}

(***************************************************************************)
(* The rating lookups of a run: a loop that awaits get_card_elo for one    *)
(* card after the other (CohortAnalyzer.update_elo_scores, lines 121-127), *)
(* while time passes and the Cube Cobra pages change.                      *)
(***************************************************************************)
MaxTime == 17       \* ticks of the clock

CardA == <<"a">>
CardB == <<"b">>

(* The cards the loop asks for: CardA has two printings, the only printing *)
(* of CardB carries no id.                                                 *)
EloCards == {CardA, CardB}

Catalogue ==
    <<[name |-> CardA, versions |-> <<[id |-> 1], [id |-> 2]>>],
      [name |-> CardB, versions |-> <<[set |-> "lea"]>>]>>

PageContents == {NoElo, Fail, Elo(1500)}

(* The caches elo_cache.pickle can hold when the program starts. *)
LoadedEntries == {[elo |-> None, lastUpdated |-> 0],
                  [elo |-> Float(1400), lastUpdated |-> 0]}

LoadedCaches ==
    UNION {[S -> LoadedEntries] : S \in SUBSET {CardA, CardB}}

CubeIdle ==
    /\ frame = <<>>
    /\ cubes = 1
    /\ card_count = 1
    /\ blacklist = NoBlacklist
    /\ stage = "input"
    /\ color_counts = ZeroCounts
    /\ filtered = <<>>
    /\ cube = {}
    /\ cards_txt = {}
    /\ error = NoException

InitElo ==
    /\ CubeIdle
    /\ now = 0
    /\ elo_cache \in LoadedCaches
    /\ scryfall_cache = Catalogue
    /\ pages \in [PageIds -> PageContents]
    /\ elo_call = NoCall
    /\ batch = "running"
    /\ lookup = NoLookup
    /\ RunIdle

(* One iteration of the loop: await self.elo_fetcher.get_card_elo(card).   *)
(* An exception that leaves get_card_elo leaves the loop.                  *)
GetCardElo(card) ==
    /\ batch = "running"
    /\ LET r == get_card_elo(card, elo_cache, scryfall_cache, pages, now)
       IN /\ elo_cache' = r.cache
          /\ elo_call' = [card |-> card, raised |-> r.raised, value |-> r.value,
                          requests |-> r.requests]
          /\ batch' = IF r.raised # NoException THEN "aborted" ELSE "running"
    /\ UNCHANGED <<now, scryfall_cache, pages, lookup>>
    /\ UNCHANGED cubeVars
    /\ UNCHANGED runVars

Tick ==
    /\ now < MaxTime
    /\ now' = now + 1
    /\ UNCHANGED <<elo_cache, scryfall_cache, pages, elo_call, batch, lookup>>
    /\ UNCHANGED cubeVars
    /\ UNCHANGED runVars

PageChange(id, content) ==
    /\ pages[id] # content
    /\ pages' = [pages EXCEPT ![id] = content]
    /\ UNCHANGED <<now, elo_cache, scryfall_cache, elo_call, batch, lookup>>
    /\ UNCHANGED cubeVars
    /\ UNCHANGED runVars

NextElo ==
    \/ \E card \in EloCards : GetCardElo(card)
    \/ Tick
    \/ \E id \in PageIds : \E content \in PageContents : PageChange(id, content)

SpecElo == InitElo /\ [][NextElo]_vars

(***************************************************************************)
(* Properties of the rating lookups, under SpecElo.                        *)
(***************************************************************************)
WeekDays == 7

(* The card has a cache entry that holds a rating. *)
HasCachedRating(card) ==
    /\ card \in DOMAIN elo_cache
    /\ elo_cache[card].elo # None

(* Whole days between the entry's lastUpdated and now. *)
AgeInDays(card) == (now - elo_cache[card].lastUpdated) \div TicksPerDay

(* The step is a call of get_card_elo(card) in which a web request failed. *)
RequestFailed(card) ==
    /\ GetCardElo(card)
    /\ \E i \in DOMAIN elo_call'.requests : pages[elo_call'.requests[i]] = Fail

(* C5: get_card_elo for a card whose cache entry holds a non-None rating and *)
(* is not stale (line 42: no more than StaleDays whole days old) returns the *)
(* cached rating, performs no web request and leaves the cache unchanged.    *)
CachedRatingServed ==
    [][\A card \in EloCards :
          HasCachedRating(card) /\ AgeInDays(card) <= StaleDays /\ GetCardElo(card)
              => /\ elo_call'.raised = NoException
                 /\ elo_call'.value = elo_cache[card].elo
                 /\ elo_call'.requests = <<>>
                 /\ elo_cache' = elo_cache]_vars

(* A call for CardA answered from the cache a day after the entry was        *)
(* written, while the pages of its printings hold another rating.            *)
ServedFromCache ==
    /\ elo_call.card = CardA
    /\ elo_call.raised = NoException
    /\ elo_call.requests = <<>>
    /\ elo_call.value = Float(1400)
    /\ HasCachedRating(CardA)
    /\ AgeInDays(CardA) = StaleDays
    /\ \A id \in PageIds : pages[id] = Elo(1500)

(* C6: a one-week window: get_card_elo refetches a card whose cache entry    *)
(* holds a non-None rating exactly when the entry's lastUpdated is more than *)
(* 7 days before the current time; an entry updated within the last week is  *)
(* served from the cache.                                                    *)
OneWeekWindow ==
    [][HasCachedRating(CardA) /\ GetCardElo(CardA)
          => (elo_call'.requests # <<>>
                 <=> now - elo_cache[CardA].lastUpdated > WeekDays * TicksPerDay)]_vars

(* C7: get_card_elo always returns a number, the card's rating or -1.0 when  *)
(* the card has no cache entry after the update attempt; never None.         *)
ReturnsANumber ==
    elo_call.card # NoName /\ elo_call.raised = NoException
        => /\ elo_call.value # None
           /\ elo_call.card \notin DOMAIN elo_cache
                 => elo_call.value = Float(NoEntryElo)

(* C8: a failing web request for one card does not abort the batch: the      *)
(* exception is swallowed, the card's cache entry is left unchanged, and the *)
(* call returns -1.0 or the previously cached rating.                        *)
FailureSwallowed ==
    [][\A card \in EloCards :
          RequestFailed(card)
              => /\ elo_call'.raised = NoException
                 /\ batch' = "running"
                 /\ CacheGet(elo_cache', card) = CacheGet(elo_cache, card)
                 /\ \/ elo_call'.value = Float(NoEntryElo)
                    \/ /\ card \in DOMAIN elo_cache
                       /\ elo_call'.value = elo_cache[card].elo]_vars

(***************************************************************************)
(* The lookups alone: get_card_by_name_with_max_id and                     *)
(* get_card_elo_from_cube_cobra on the Scryfall data and pages of a run.   *)
(***************************************************************************)
MaxKeys == 2        \* keys of the Scryfall cache

LookupNames == {<<"a">>, <<"b">>}

(* "a", "a // b", "c // a", "c // ab" and "b//c" *)
ScryfallKeys ==
    {<<"a">>,
     <<"a", " ", "/", "/", " ", "b">>,
     <<"c", " ", "/", "/", " ", "a">>,
     <<"c", " ", "/", "/", " ", "a", "b">>,
     <<"b", "/", "/", "c">>}

(* The printings under a key: load_local_scryfall_cache appends each card  *)
(* of the bulk file to the list of its name, so no list is empty.          *)
VersionLists ==
    {<<[id |-> i]>> : i \in PageIds}
        \cup {<<[id |-> i], [id |-> j]>> : i, j \in PageIds}
        \cup {<<[set |-> "lea"]>>}

Catalogues ==
    UNION {{sc \in [1..n -> [name : ScryfallKeys, versions : VersionLists]] :
               \A i, j \in 1..n : i # j => sc[i].name # sc[j].name}
           : n \in 0..MaxKeys}

InitLookup ==
    /\ CubeIdle
    /\ now = 0
    /\ elo_cache = <<>>
    /\ scryfall_cache \in Catalogues
    /\ pages \in [PageIds -> PageContents]
    /\ elo_call = NoCall
    /\ batch = "running"
    /\ lookup = NoLookup
    /\ RunIdle

CallGetCardByNameWithMaxId(name) ==
    /\ lookup = NoLookup
    /\ LET r == get_card_by_name_with_max_id(name, FALSE, scryfall_cache)
       IN lookup' = [op |-> "get_card_by_name_with_max_id", name |-> name,
                     raised |-> r.raised, value |-> r.value, calls |-> r.calls]
    /\ UNCHANGED <<now, elo_cache, scryfall_cache, pages, elo_call, batch>>
    /\ UNCHANGED cubeVars
    /\ UNCHANGED runVars

CallGetCardEloFromCubeCobra(name) ==
    /\ lookup = NoLookup
    /\ LET r == get_card_elo_from_cube_cobra(name, scryfall_cache, pages)
       IN lookup' = [op |-> "get_card_elo_from_cube_cobra", name |-> name,
                     raised |-> r.raised, value |-> r.value,
                     requests |-> r.requests]
    /\ UNCHANGED <<now, elo_cache, scryfall_cache, pages, elo_call, batch>>
    /\ UNCHANGED cubeVars
    /\ UNCHANGED runVars

NextLookup ==
    \/ \E name \in LookupNames : CallGetCardByNameWithMaxId(name)
    \/ \E name \in LookupNames : CallGetCardEloFromCubeCobra(name)

SpecLookup == InitLookup /\ [][NextLookup]_vars

(***************************************************************************)
(* Properties of the lookups, under SpecLookup.                            *)
(***************************************************************************)
Printings(name) == ScryfallGet(scryfall_cache, name, <<>>)

EveryPrintingHasId ==
    \A i \in DOMAIN scryfall_cache :
        \A j \in DOMAIN scryfall_cache[i].versions :
            "id" \in DOMAIN scryfall_cache[i].versions[j]

(* The key has the form 'name // ...'. *)
IsNameThenRest(name, key) ==
    \E k \in 0..Len(key) :
        /\ Len(name) + k + 2 <= Len(key)
        /\ SubSeq(key, 1, Len(name)) = name
        /\ \A j \in (Len(name) + 1)..(Len(name) + k) : key[j] \in Whitespace
        /\ SubSeq(key, Len(name) + k + 1, Len(name) + k + 2) = Slashes

(* The key has the form '... // name': it ends with the name. *)
IsRestThenName(name, key) ==
    \E k \in 0..Len(key) :
        /\ Len(name) + k + 2 <= Len(key)
        /\ SubSeq(key, Len(key) - Len(name) + 1, Len(key)) = name
        /\ \A j \in (Len(key) - Len(name) - k + 1)..(Len(key) - Len(name)) :
              key[j] \in Whitespace
        /\ SubSeq(key, Len(key) - Len(name) - k - 1, Len(key) - Len(name) - k)
              = Slashes

(* The position of the variant the lookup is to fall back to, 0 if none. *)
VariantOf(name) ==
    LET pre  == {i \in DOMAIN scryfall_cache :
                    IsNameThenRest(name, scryfall_cache[i].name)}
        post == {i \in DOMAIN scryfall_cache :
                    IsRestThenName(name, scryfall_cache[i].name)}
    IN IF pre # {} THEN FirstIndex(pre)
       ELSE IF post # {} THEN FirstIndex(post)
       ELSE 0

IsMaxIdPrinting(p, versions) ==
    /\ \E j \in DOMAIN versions : versions[j] = p
    /\ \A j \in DOMAIN versions : versions[j].id <= p.id

(* C9: for a card with several printings in the Scryfall cache,              *)
(* get_card_elo_from_cube_cobra tries further printings when the first one   *)
(* tried has no rating, and returns a rating whenever the Cube Cobra page of *)
(* at least one printing has one.                                            *)
ChasesPrintings ==
    /\ lookup.op = "get_card_elo_from_cube_cobra"
    /\ EveryPrintingHasId
    /\ Len(Printings(lookup.name)) >= 2
    /\ \A j \in DOMAIN Printings(lookup.name) :
          pages[Printings(lookup.name)[j].id] # Fail
    /\ \E j \in DOMAIN Printings(lookup.name) :
          pages[Printings(lookup.name)[j].id] \notin {NoElo, Fail}
    => /\ lookup.raised = NoException
       /\ lookup.value # None

(* C10: for a name with no entry in the Scryfall cache,                      *)
(* get_card_by_name_with_max_id falls back to the first key of the form      *)
(* 'name // ...', else to the first key of the form '... // name'; it        *)
(* returns the printing with the maximum id under the variant, an empty      *)
(* result only when there is no variant, and recurses at most one level.     *)
FallsBackToVariant ==
    /\ lookup.op = "get_card_by_name_with_max_id"
    /\ EveryPrintingHasId
    /\ ~HasKey(scryfall_cache, lookup.name)
    => /\ lookup.raised = NoException
       /\ lookup.calls <= 2
       /\ IF VariantOf(lookup.name) = 0
          THEN lookup.value = EmptyDict
          ELSE /\ lookup.value # EmptyDict
               /\ IsMaxIdPrinting(lookup.value,
                      scryfall_cache[VariantOf(lookup.name)].versions)

(***************************************************************************)
(* CohortAnalyzer.update_elo_scores as a whole: the gather over the unique *)
(* cards, save_cache, then the loop over the rows.  The process can be     *)
(* killed at any point, and an exception that leaves get_card_elo leaves   *)
(* the gather or the loop.                                                 *)
(***************************************************************************)
(* The lookup fetched a rating: it asked Cube Cobra and stored the answer. *)
FetchedRating(card, r) ==
    /\ r.raised = NoException
    /\ r.requests # <<>>
    /\ r.value # None
    /\ CacheGet(r.cache, card) # CacheGet(elo_cache, card)

(* await get_card_elo(card), in the gather ("gather") or the loop ("loop") *)
AwaitGetCardElo(card, r, phase) ==
    /\ elo_cache' = r.cache
    /\ elo_call' = [card |-> card, raised |-> r.raised, value |-> r.value,
                    requests |-> r.requests]
    /\ tasks' = tasks \ {card}
    /\ fetched' = IF FetchedRating(card, r) THEN fetched \cup {card} ELSE fetched
    /\ batch' = IF r.raised # NoException THEN "aborted" ELSE phase

InitBatch ==
    /\ CubeIdle
    /\ now \in {0, (StaleDays + 1) * TicksPerDay}
    /\ elo_cache \in LoadedCaches
    /\ scryfall_cache = Catalogue
    /\ pages \in [PageIds -> PageContents]
    /\ elo_call = NoCall
    /\ batch = "gather"
    /\ lookup = NoLookup
    /\ elo_pickle = elo_cache
    /\ tasks = EloCards
    /\ fetched = {}
    /\ pipeline = [pc |-> "idle"]
    /\ data_dir = <<>>
    /\ scryfall_run = [pc |-> "idle"]
    /\ call = [op |-> "none"]

batchFrame == <<now, scryfall_cache, pages, lookup, pipeline, data_dir,
                scryfall_run, call>>

(* One task of asyncio.gather, line 115. *)
GatherTask(card) ==
    /\ batch = "gather"
    /\ card \in tasks
    /\ AwaitGetCardElo(card, get_card_elo(card, elo_cache, scryfall_cache, pages, now),
                       "gather")
    /\ UNCHANGED elo_pickle
    /\ UNCHANGED batchFrame
    /\ UNCHANGED cubeVars

(* self.elo_fetcher.save_cache(), line 119: to_pickle(self.elo_cache, ...) *)
SaveCache ==
    /\ batch = "gather"
    /\ tasks = {}
    /\ elo_pickle' = elo_cache
    /\ batch' = "loop"
    /\ tasks' = EloCards
    /\ UNCHANGED <<elo_cache, elo_call, fetched>>
    /\ UNCHANGED batchFrame
    /\ UNCHANGED cubeVars

(* One iteration of the loop over freq_frame.name, lines 122-127. *)
LoopLookup(card) ==
    /\ batch = "loop"
    /\ card \in tasks
    /\ AwaitGetCardElo(card, get_card_elo(card, elo_cache, scryfall_cache, pages, now),
                       "loop")
    /\ UNCHANGED elo_pickle
    /\ UNCHANGED batchFrame
    /\ UNCHANGED cubeVars

(* return freq_frame, line 130 *)
ReturnFrame ==
    /\ batch = "loop"
    /\ tasks = {}
    /\ batch' = "done"
    /\ UNCHANGED <<elo_cache, elo_call, elo_pickle, tasks, fetched>>
    /\ UNCHANGED batchFrame
    /\ UNCHANGED cubeVars

(* The process is killed. *)
Crash ==
    /\ batch \in {"gather", "loop"}
    /\ batch' = "aborted"
    /\ UNCHANGED <<elo_cache, elo_call, elo_pickle, tasks, fetched>>
    /\ UNCHANGED batchFrame
    /\ UNCHANGED cubeVars

NextBatch ==
    \/ \E card \in EloCards : GatherTask(card)
    \/ SaveCache
    \/ \E card \in EloCards : LoopLookup(card)
    \/ ReturnFrame
    \/ Crash
    \/ \E id \in PageIds : \E content \in PageContents : PageChange(id, content)

SpecBatch == InitBatch /\ [][NextBatch]_vars

(* C11: ratings are persisted incrementally: when a batch of lookups is      *)
(* interrupted after some lookups have completed, the ratings those lookups  *)
(* fetched are already in the file elo_cache.pickle.                         *)
FetchedRatingsPersisted ==
    batch = "aborted"
        => \A card \in fetched :
              /\ card \in DOMAIN elo_pickle
              /\ elo_pickle[card].elo = elo_cache[card].elo

(***************************************************************************)
(* The pipelines: DataGeneratedCubePipeline.run, CohortAnalysisPipeline.run *)
(* and CubeAnalyzer.analyze called on its own.  pipeline is a record:      *)
(*   kind    which of the three is running                                 *)
(*   pc      the statement of run() that is next, "returned" or "raised"   *)
(*   stages  config.stages                                                 *)
(*   log     the stage bodies that ran to completion, in order             *)
(*   raised  the exception that left run()                                 *)
(*   files   the files that exist; read, written: the files read, written  *)
(***************************************************************************)
Stages == {"scrape", "generate", "analyze"}

CubeFile == "results/<cubeName>.csv"
DataframeFile == "results/csv/<name>_dataframe.csv"
WeightsFile == "cube_weights.json"
StatsFile == "cube_stats.csv"
PlotFiles == {"analysis/<cubeName>/plots and tables"}

EloIdle ==
    /\ now = 0
    /\ elo_cache = <<>>
    /\ scryfall_cache = <<>>
    /\ pages = [i \in PageIds |-> NoElo]
    /\ elo_call = NoCall
    /\ batch = "running"
    /\ lookup = NoLookup

(* What a called function hands back: a plain value (generate_cube is a    *)
(* def that returns a DataFrame) or a coroutine object (an async def).     *)
DataFrame == [type |-> "DataFrame"]
CoroutineOf(f) == [type |-> "coroutine", function |-> f]

(* await x: a coroutine runs to completion; anything that is not awaitable *)
(* raises TypeError.                                                       *)
AwaitRaises(x) == IF x.type = "coroutine" THEN NoException ELSE "TypeError"

InitPipeline ==
    /\ CubeIdle
    /\ EloIdle
    /\ elo_pickle = <<>>
    /\ tasks = {}
    /\ fetched = {}
    /\ data_dir = <<>>
    /\ scryfall_run = [pc |-> "idle"]
    /\ call = [op |-> "none"]
    /\ \E kind \in {"cube", "cohort", "analyze"} :
       \E stages \in SUBSET Stages :
       \E files \in SUBSET {CubeFile} :
          pipeline = [kind |-> kind,
                      pc |-> IF kind = "analyze" THEN "analyze" ELSE "scrape",
                      stages |-> stages, log |-> <<>>, raised |-> NoException,
                      files |-> files, read |-> {}, written |-> {}]

pipelineFrame == <<elo_pickle, tasks, fetched, data_dir, scryfall_run, call>>

Raise(p, e) == [p EXCEPT !.pc = "raised", !.raised = e]

(* CubeCobraScraper.get_cube_data, awaited at line 21 of both pipelines:   *)
(* with "scrape" in the stages the cubes are fetched (ok says whether the  *)
(* requests succeed) and cube_weights.json is written; else it is skipped. *)
get_cube_data(p, ok) ==
    IF "scrape" \notin p.stages
    THEN [p EXCEPT !.log = Append(@, "scrape")]
    ELSE IF ok
         THEN [p EXCEPT !.log = Append(@, "scrape"),
                        !.files = @ \cup {WeightsFile},
                        !.written = @ \cup {WeightsFile}]
         ELSE Raise(p, "ClientError")

ScrapeStage(ok) ==
    /\ pipeline.pc = "scrape"
    /\ LET p == IF AwaitRaises(CoroutineOf("get_cube_data")) = NoException
                THEN get_cube_data(pipeline, ok)
                ELSE Raise(pipeline, AwaitRaises(CoroutineOf("get_cube_data")))
       IN pipeline' = IF p.pc = "raised" THEN p
                      ELSE [p EXCEPT !.pc = IF p.kind = "cube" THEN "generate"
                                            ELSE "analyze_cohort"]
    /\ UNCHANGED pipelineFrame
    /\ UNCHANGED cubeVars
    /\ UNCHANGED eloVars

(* CubeGenerator.generate_cube, a plain def: called, it runs to its end     *)
(* (ok: it returns the cube, make_cube having written its csv) or raises.   *)
generate_cube(p, ok) ==
    IF ok
    THEN [p EXCEPT !.log = Append(@, "generate"),
                   !.files = @ \cup {DataframeFile},
                   !.written = @ \cup {DataframeFile}]
    ELSE Raise(p, "Exception")

(* line 22 of pipeline.py: await self.cube_creator.generate_cube() *)
GenerateStage(ok) ==
    /\ pipeline.pc = "generate"
    /\ LET p == generate_cube(pipeline, ok)
       IN pipeline' = IF p.pc = "raised" THEN p
                      ELSE IF AwaitRaises(DataFrame) # NoException
                           THEN Raise(p, AwaitRaises(DataFrame))
                           ELSE [p EXCEPT !.pc = "analyze"]
    /\ UNCHANGED pipelineFrame
    /\ UNCHANGED cubeVars
    /\ UNCHANGED eloVars

(* CubeAnalyzer.load_cube: pd.read_csv of the result file *)
load_cube(p) ==
    IF CubeFile \in p.files
    THEN [p EXCEPT !.read = @ \cup {CubeFile}]
    ELSE Raise(p, "FileNotFoundError")

(* CubeAnalyzer.analyze, lines 109-133 of cube_analysis/analyzer.py:        *)
(* _set_data_dictionary first, then the test of config.stages.              *)
analyze(p) ==
    IF load_cube(p).pc = "raised" THEN load_cube(p)
    ELSE IF "analyze" \notin p.stages
         THEN [load_cube(p) EXCEPT !.log = Append(@, "analyze")]
         ELSE [load_cube(p) EXCEPT !.log = Append(@, "analyze"),
                                   !.files = @ \cup PlotFiles,
                                   !.written = @ \cup PlotFiles]

(* line 23 of pipeline.py, or analyze() called on its own *)
AnalyzeStage ==
    /\ pipeline.pc = "analyze"
    /\ LET p == analyze(pipeline)
       IN pipeline' = IF p.pc = "raised" THEN p ELSE [p EXCEPT !.pc = "returned"]
    /\ UNCHANGED pipelineFrame
    /\ UNCHANGED cubeVars
    /\ UNCHANGED eloVars

(* cohort_analysis/analyzer.py, line 132: async def analyze_cohort.  Its    *)
(* body runs only when the coroutine it returns is awaited.                 *)
analyze_cohort(p, awaited) ==
    IF awaited
    THEN [p EXCEPT !.log = Append(@, "analyze_cohort"),
                   !.files = @ \cup {StatsFile},
                   !.written = @ \cup {StatsFile}]
    ELSE p

(* line 22 of cohort_pipeline.py: self.analyzer.analyze_cohort(), a bare    *)
(* call: the coroutine object is dropped.                                   *)
AnalyzeCohortStage ==
    /\ pipeline.pc = "analyze_cohort"
    /\ pipeline' = [analyze_cohort(pipeline, FALSE) EXCEPT !.pc = "returned"]
    /\ UNCHANGED pipelineFrame
    /\ UNCHANGED cubeVars
    /\ UNCHANGED eloVars

NextPipeline ==
    \/ \E ok \in BOOLEAN : ScrapeStage(ok)
    \/ \E ok \in BOOLEAN : GenerateStage(ok)
    \/ AnalyzeStage
    \/ AnalyzeCohortStage

SpecPipeline == InitPipeline /\ [][NextPipeline]_vars

RunOver == pipeline.pc \in {"returned", "raised"}

InLog(s) == \E i \in DOMAIN pipeline.log : pipeline.log[i] = s

(* C12: once DataGeneratedCubePipeline.run is over, a run whose scrape and  *)
(* generate stages both ran to completion has also executed analyze.        *)
AnalyzeFollowsGenerate ==
    (pipeline.kind = "cube" /\ RunOver /\ InLog("scrape") /\ InLog("generate"))
        => InLog("analyze")

(* C13: when CohortAnalysisPipeline.run has returned without error,         *)
(* analyze_cohort has run to completion: cube_stats.csv has been written.   *)
CohortRunWritesStats ==
    (pipeline.kind = "cohort" /\ pipeline.pc = "returned")
        => (InLog("analyze_cohort") /\ StatsFile \in pipeline.written)

(* C14: with "analyze" absent from config.stages, a call of                 *)
(* CubeAnalyzer.analyze that is over has neither read the cube result file  *)
(* nor written a plot or table.                                             *)
SkippedAnalyzeTouchesNothing ==
    (pipeline.kind = "analyze" /\ RunOver /\ "analyze" \notin pipeline.stages)
        => (CubeFile \notin pipeline.read /\ pipeline.written \cap PlotFiles = {})

(***************************************************************************)
(* ScryfallCache.get_scryfall_cache.  Dates are whole days counted from    *)
(* 1970-01-01; a time is a day and a tick of that day.  A file of the data *)
(* directory is default-cards-<date><time>.json, the record of its date    *)
(* and time stamp; data_dir lists the files in the order glob yields them. *)
(***************************************************************************)
Epoch == 0
Today == 20000
MaxCacheAge == 7
MaxAge == 9
MaxFiles == 2

FileDates == (Today - MaxAge)..(Today + 1)
CacheFiles == [date : FileDates, time : {1, 2}]

(* the file name "", which names no file *)
NoFile == [date |-> Epoch, time |-> 0]

DirFiles(dir) == {dir[i] : i \in DOMAIN dir}

Directories ==
    {dir \in UNION {[1..n -> CacheFiles] : n \in 0..MaxFiles} :
        \A i, j \in DOMAIN dir : i # j => dir[i] # dir[j]}

(* re.search(r"\d{8}") and strptime: the first eight digits of the name *)
extract_date_from_download_uri(f) == f.date

get_max_local_cache_date(dir) ==
    IF dir = <<>> THEN Epoch
    ELSE CHOOSE d \in {extract_date_from_download_uri(f) : f \in DirFiles(dir)} :
            \A f \in DirFiles(dir) : extract_date_from_download_uri(f) <= d

(* timedelta.days of (day, tick) minus midnight of date: rounds down *)
DaysSince(date, day, tick) ==
    ((day * TicksPerDay + tick) - date * TicksPerDay) \div TicksPerDay

verify_local_cache_is_under_a_week_old(dir, day, tick) ==
    ~ (DaysSince(get_max_local_cache_date(dir), day, tick) >= MaxCacheAge)

verify_local_cache_is_up_to_date(dir, day, tick) ==
    ~ (DaysSince(get_max_local_cache_date(dir), day, tick) > MaxCacheAge)

(* the loop of lines 96-100, from the i-th file on *)
RECURSIVE most_recent_from(_, _, _, _)
most_recent_from(dir, i, max_date, max_cache) ==
    IF i > Len(dir) THEN max_cache
    ELSE IF extract_date_from_download_uri(dir[i]) > max_date
         THEN most_recent_from(dir, i + 1, extract_date_from_download_uri(dir[i]), dir[i])
         ELSE most_recent_from(dir, i + 1, max_date, max_cache)

get_most_recent_local_cache_filename(dir) == most_recent_from(dir, 1, Epoch, NoFile)

IsNewest(dir, f) == f = get_most_recent_local_cache_filename(dir)

HasNewestDate(dir, f) ==
    extract_date_from_download_uri(f) = get_max_local_cache_date(dir)

remove_old_caches_by_date(dir) == SelectSeq(dir, LAMBDA f : HasNewestDate(dir, f))

remove_old_caches(dir) == SelectSeq(dir, LAMBDA f : IsNewest(dir, f))

(* open(data_dir / file_name, "wb"): an existing file of that name is       *)
(* overwritten, a new one appears somewhere in the order glob yields.       *)
download_bulk_data_from_url(dir, f, pos) ==
    IF f \in DirFiles(dir) THEN dir
    ELSE [i \in 1..(Len(dir) + 1) |->
            IF i < pos THEN dir[i] ELSE IF i = pos THEN f ELSE dir[i - 1]]

(* The bulk file Scryfall offers: it is rebuilt daily, so it carries the    *)
(* date of today, or of the day before or after in another time zone.       *)
BulkFiles == {f \in CacheFiles : f.date \in (Today - 1)..(Today + 1)}

ScryfallIdle(tick) ==
    [pc |-> "idle", tick |-> tick, before |-> <<>>, download |-> "none",
     loaded |-> NoFile, raised |-> NoException]

InitScryfall ==
    /\ CubeIdle
    /\ EloIdle
    /\ elo_pickle = <<>>
    /\ tasks = {}
    /\ fetched = {}
    /\ pipeline = [pc |-> "idle"]
    /\ call = [op |-> "none"]
    /\ data_dir \in Directories
    /\ \E tick \in 0..(TicksPerDay - 1) : scryfall_run = ScryfallIdle(tick)

(* lines 24-27 and 32-33: the download branch *)
DownloadBranch(ok, f, pos) ==
    IF ~ok
    THEN /\ scryfall_run' = [scryfall_run EXCEPT !.pc = "raised", !.before = data_dir,
                                !.download = "failed", !.loaded = NoFile,
                                !.raised = "HTTPError"]
         /\ data_dir' = data_dir
    ELSE /\ scryfall_run' = [scryfall_run EXCEPT !.pc = "returned", !.before = data_dir,
                                !.download = "ok", !.loaded = f,
                                !.raised = NoException]
         /\ data_dir' = remove_old_caches(download_bulk_data_from_url(data_dir, f, pos))

(* lines 29-30 and 32-33: the local branch *)
LocalBranch ==
    LET name == get_most_recent_local_cache_filename(data_dir)
    IN IF name \notin DirFiles(data_dir)
       THEN /\ scryfall_run' = [scryfall_run EXCEPT !.pc = "raised", !.before = data_dir,
                                   !.download = "none", !.loaded = NoFile,
                                   !.raised = "OSError"]
            /\ data_dir' = data_dir
       ELSE /\ scryfall_run' = [scryfall_run EXCEPT !.pc = "returned", !.before = data_dir,
                                   !.download = "none", !.loaded = name,
                                   !.raised = NoException]
            /\ data_dir' = remove_old_caches(data_dir)

GetScryfallCache(ok, f, pos) ==
    /\ scryfall_run.pc \in {"idle", "returned"}
    /\ pos \in 1..(Len(data_dir) + 1)
    /\ IF ~verify_local_cache_is_up_to_date(data_dir, Today, scryfall_run.tick)
       THEN DownloadBranch(ok, f, pos)
       ELSE LocalBranch
    /\ UNCHANGED <<elo_pickle, tasks, fetched, pipeline, call>>
    /\ UNCHANGED cubeVars
    /\ UNCHANGED eloVars

NextScryfall ==
    \E ok \in BOOLEAN : \E f \in BulkFiles : \E pos \in 1..(MaxFiles + 1) :
        GetScryfallCache(ok, f, pos)

SpecScryfall == InitScryfall /\ [][NextScryfall]_vars

ScryfallOver == scryfall_run.pc \in {"returned", "raised"}

AllOlderThanAWeek(dir) == \A f \in DirFiles(dir) : Today - f.date > MaxCacheAge

(* C15: a call of get_scryfall_cache downloads exactly when no local file   *)
(* exists or every local file is dated more than 7 days before today; when  *)
(* it does not download, it loads a local file of the newest date.          *)
DownloadsIffStale ==
    ScryfallOver =>
        /\ (scryfall_run.download # "none") <=> AllOlderThanAWeek(scryfall_run.before)
        /\ (scryfall_run.download = "none" /\ scryfall_run.pc = "returned") =>
              /\ scryfall_run.loaded \in DirFiles(scryfall_run.before)
              /\ \A f \in DirFiles(scryfall_run.before) :
                    f.date <= scryfall_run.loaded.date

EightDaysOldDownloaded ==
    /\ scryfall_run.pc = "returned"
    /\ scryfall_run.download = "ok"
    /\ scryfall_run.before # <<>>
    /\ \E f \in DirFiles(scryfall_run.before) : Today - f.date = MaxCacheAge + 1

MaxCount == 1
MaxTarget == 9

(* the order of the same loop in main.py *)
MAIN_ADJUST_ORDER ==
    <<"Blue", "Colorless", "Black", "Multicolored", "Red", "Green", "White", "Land">>

InitAdjust ==
    /\ CubeIdle
    /\ EloIdle
    /\ elo_pickle = <<>>
    /\ tasks = {}
    /\ fetched = {}
    /\ pipeline = [pc |-> "idle"]
    /\ data_dir = <<>>
    /\ scryfall_run = [pc |-> "idle"]
    /\ \E counts \in [COLORS_SET -> 0..MaxCount] : \E n \in 1..MaxTarget :
          call = [op |-> "input", color_counts |-> counts, card_count |-> n,
                  result |-> counts]

AdjustColorCounts ==
    /\ call.op = "input"
    /\ call' = [call EXCEPT !.op = "adjust_color_counts",
                            !.result = adjust_color_counts(call.color_counts,
                                                           call.card_count)]
    /\ UNCHANGED <<elo_pickle, tasks, fetched, pipeline, data_dir, scryfall_run>>
    /\ UNCHANGED cubeVars
    /\ UNCHANGED eloVars

NextAdjust == AdjustColorCounts

SpecAdjust == InitAdjust /\ [][NextAdjust]_vars

Adjusted == call.op = "adjust_color_counts"

Added(c) == call.result[c] - call.color_counts[c]

(* C18: adjust_color_counts decreases no count, and the counts it returns   *)
(* sum to the larger of the sum on entry and card_count.                    *)
AdjustOnlyAddsUpToCardCount ==
    Adjusted =>
        /\ \A c \in COLORS_SET : call.result[c] >= call.color_counts[c]
        /\ SumCounts(call.result) =
              IF SumCounts(call.color_counts) >= call.card_count
              THEN SumCounts(call.color_counts) ELSE call.card_count

AdjustedAroundTwice ==
    /\ Adjusted
    /\ call.card_count - SumCounts(call.color_counts) > Len(ADJUST_ORDER)
    /\ SumCounts(call.result) = call.card_count

(* C20: the missing cards go round the eight categories in a fixed order:   *)
(* the numbers added to two categories differ by at most one, and a         *)
(* category earlier in the order is given no fewer than a later one.        *)
RemainderSpreadEvenly ==
    Adjusted =>
        /\ \A c, d \in COLORS_SET : Added(c) - Added(d) <= 1
        /\ \A i, j \in DOMAIN MAIN_ADJUST_ORDER :
              i < j => Added(MAIN_ADJUST_ORDER[i]) >= Added(MAIN_ADJUST_ORDER[j])

(***************************************************************************)
(* CuberMerger.average_card_counts.  weighted_frame is the frame           *)
(* calculate_weighted_frame built: one row a card, best-ranked first.      *)
(***************************************************************************)
MergeColors == {"Blue", "Red"}

(* the rows are "1", "2", ... by rank; the colour is drawn *)
WeightedFrames ==
    UNION {{[i \in 1..n |-> [name |-> i, color |-> cs[i]]] : cs \in [1..n -> MergeColors]} :
              n \in 0..MaxRows}

CardCountDicts ==
    {[c \in COLORS_SET |-> IF c \in MergeColors THEN q[c] ELSE 0] :
        q \in [MergeColors -> 0..MaxCardCount]}

(* Python's round on the quotient s / n: to the nearest, a half to even *)
Round(s, n) ==
    LET q == s \div n
        r == s % n
    IN IF 2 * r < n THEN q
       ELSE IF 2 * r > n THEN q + 1
       ELSE IF q % 2 = 0 THEN q ELSE q + 1

RECURSIVE SumOfDicts(_, _)
SumOfDicts(dicts, color) ==
    IF dicts = <<>> THEN 0
    ELSE Head(dicts)[color] + SumOfDicts(Tail(dicts), color)

calculate_average_dict(card_count_dicts) ==
    [color \in COLORS_SET |->
        Round(SumOfDicts(card_count_dicts, color), Len(card_count_dicts))]

(* frame[frame['Color Category'].isin(colors)] *)
IsIn(fr, colors) == SelectSeq(fr, LAMBDA row : row.color \in colors)

(* frame[:n] *)
FirstN(fr, n) == SubSeq(fr, 1, IF n < Len(fr) THEN n ELSE Len(fr))

(* The list of sub-frames, by the colour whose turn of the loop built it. *)
average_card_counts(weighted_frame, card_count_dicts) ==
    LET avg_dict == calculate_average_dict(card_count_dicts)
    IN [color \in COLORS_SET |->
           FirstN(IsIn(weighted_frame, COLORS_SET), avg_dict[color])]

NoSubFrames == [c \in COLORS_SET |-> <<>>]

InitMerge ==
    /\ CubeIdle
    /\ EloIdle
    /\ elo_pickle = <<>>
    /\ tasks = {}
    /\ fetched = {}
    /\ pipeline = [pc |-> "idle"]
    /\ data_dir = <<>>
    /\ scryfall_run = [pc |-> "idle"]
    /\ \E fr \in WeightedFrames :
       \E dicts \in UNION {[1..n -> CardCountDicts] : n \in 1..MaxCubes} :
          call = [op |-> "input", weighted_frame |-> fr, card_count_dicts |-> dicts,
                  avg_dict |-> ZeroCounts, result |-> NoSubFrames]

AverageCardCounts ==
    /\ call.op = "input"
    /\ call' = [call EXCEPT !.op = "average_card_counts",
                            !.avg_dict = calculate_average_dict(call.card_count_dicts),
                            !.result = average_card_counts(call.weighted_frame,
                                                           call.card_count_dicts)]
    /\ UNCHANGED <<elo_pickle, tasks, fetched, pipeline, data_dir, scryfall_run>>
    /\ UNCHANGED cubeVars
    /\ UNCHANGED eloVars

NextMerge == AverageCardCounts

SpecMerge == InitMerge /\ [][NextMerge]_vars

RowsOf(fr) == {fr[i] : i \in DOMAIN fr}

(* C17: the rows average_card_counts contributes for a colour are rows of   *)
(* that colour, the best-ranked ones of it, at most avg_dict[colour] of     *)
(* them; so no card is contributed by two colours.                          *)
SubFramesAreOfTheirColour ==
    call.op = "average_card_counts" =>
        /\ \A c \in COLORS_SET :
              /\ \A row \in RowsOf(call.result[c]) : row.color = c
              /\ Len(call.result[c]) <= calculate_average_dict(call.card_count_dicts)[c]
              /\ \A row \in RowsOf(call.result[c]) :
                 \A other \in RowsOf(call.weighted_frame) :
                    (other.color = c /\ other.name < row.name)
                        => other \in RowsOf(call.result[c])
        /\ \A c, d \in COLORS_SET :
              c # d => RowsOf(call.result[c]) \cap RowsOf(call.result[d]) = {}

(***************************************************************************)
(* CubeCombiner.get_elo_scores: call holds the name column of freq_frame   *)
(* and, once the method has returned, the ELO column it assigned.          *)
(***************************************************************************)
NameColumns == UNION {[1..n -> EloCards] : n \in 0..MaxKeys}

InitCombiner ==
    /\ CubeIdle
    /\ now = 0
    /\ elo_cache \in LoadedCaches
    /\ scryfall_cache = Catalogue
    /\ pages \in [PageIds -> PageContents]
    /\ elo_call = NoCall
    /\ batch = "running"
    /\ lookup = NoLookup
    /\ elo_pickle = elo_cache
    /\ tasks = {}
    /\ fetched = {}
    /\ pipeline = [pc |-> "idle"]
    /\ data_dir = <<>>
    /\ scryfall_run = [pc |-> "idle"]
    /\ \E names \in NameColumns : call = [op |-> "input", name |-> names, ELO |-> <<>>]

(* lines 169-172: get_card_elo is called without await, so what is appended *)
(* is the coroutine object; no line of get_card_elo runs.                   *)
CubeCombiner_get_elo_scores(names) == [index \in DOMAIN names |-> Coroutine(names[index])]

(* lines 168-176, save_cache of line 174 included *)
CombinerGetEloScores ==
    /\ call.op = "input"
    /\ call' = [call EXCEPT !.op = "get_elo_scores",
                            !.ELO = CubeCombiner_get_elo_scores(call.name)]
    /\ elo_pickle' = elo_cache
    /\ UNCHANGED <<tasks, fetched, pipeline, data_dir, scryfall_run>>
    /\ UNCHANGED cubeVars
    /\ UNCHANGED eloVars

NextCombiner == CombinerGetEloScores

SpecCombiner == InitCombiner /\ [][NextCombiner]_vars

(* C19: when CubeCombiner.get_elo_scores has returned, the ELO of every row *)
(* is the rating get_card_elo yields for the card of the row, a number, and *)
(* the cache has been saved.                                                *)
EloColumnHoldsRatings ==
    call.op = "get_elo_scores" =>
        /\ \A index \in DOMAIN call.name :
              /\ call.ELO[index].type = "float"
              /\ call.ELO[index] =
                    get_card_elo(call.name[index], elo_cache, scryfall_cache,
                                 pages, now).value
        /\ elo_pickle = elo_cache

(***************************************************************************)
(* The loops of adjust_color_counts, one turn of the for loop a step.      *)
(* call.at is the position of the for loop in its list.                    *)
(***************************************************************************)
(* line 115 with no effect *)
NotIncremented(counts, color) == counts

(* line 115: color_counts[color] += 1 *)
Incremented(counts, color) == [counts EXCEPT ![color] = @ + 1]

InitAdjustLoop ==
    /\ CubeIdle
    /\ EloIdle
    /\ elo_pickle = <<>>
    /\ tasks = {}
    /\ fetched = {}
    /\ pipeline = [pc |-> "idle"]
    /\ data_dir = <<>>
    /\ scryfall_run = [pc |-> "idle"]
    /\ \E counts \in [COLORS_SET -> 0..MaxCount] : \E n \in 1..MaxTarget :
          call = [op |-> "while", color_counts |-> counts, card_count |-> n,
                  result |-> counts, at |-> 1]

adjustFrame == <<elo_pickle, tasks, fetched, pipeline, data_dir, scryfall_run>>

(* lines 112-115: the tests of the while and of the if hold *)
AdjustIncrement ==
    /\ call.op = "while"
    /\ SumCounts(call.result) < call.card_count
    /\ call' = [call EXCEPT !.result = Incremented(@, ADJUST_ORDER[call.at]),
                            !.at = (call.at % Len(ADJUST_ORDER)) + 1]
    /\ UNCHANGED adjustFrame
    /\ UNCHANGED cubeVars
    /\ UNCHANGED eloVars

(* lines 116-119: break, the while test fails, return *)
AdjustReturn ==
    /\ call.op = "while"
    /\ ~ (SumCounts(call.result) < call.card_count)
    /\ call' = [call EXCEPT !.op = "adjust_color_counts"]
    /\ UNCHANGED adjustFrame
    /\ UNCHANGED cubeVars
    /\ UNCHANGED eloVars

NextAdjustLoop == AdjustIncrement \/ AdjustReturn

SpecAdjustLoop == InitAdjustLoop /\ [][NextAdjustLoop]_vars

(* The interpreter keeps executing the loop. *)
FairAdjustLoop == SpecAdjustLoop /\ WF_vars(NextAdjustLoop)

(* C21: adjust_color_counts returns: the while loop ends after finitely     *)
(* many increments.                                                         *)
AdjustTerminates == <>(call.op = "adjust_color_counts")

ReturnedAfterASecondPass ==
    /\ call.op = "adjust_color_counts"
    /\ SumCounts(call.result) - SumCounts(call.color_counts) > Len(ADJUST_ORDER)

(***************************************************************************)
(* update_card_elo and the entry it leaves.                                *)
(***************************************************************************)
(* The lookup get_card_elo makes for card returns None. *)
LookupYieldsNone(card) ==
    /\ NeedsUpdate(CacheGet(elo_cache, card), now)
    /\ get_card_elo_from_cube_cobra(card, scryfall_cache, pages).raised = NoException
    /\ get_card_elo_from_cube_cobra(card, scryfall_cache, pages).value = None

(* C23: when the lookup of update_card_elo yields None, an entry the card    *)
(* already has keeps its rating and gets lastUpdated = now; a card without   *)
(* an entry gets a new entry whose rating is None.  No other entry changes.  *)
NoRatingKeepsEntry ==
    [][\A card \in EloCards :
          LookupYieldsNone(card) /\ GetCardElo(card)
              => /\ card \in DOMAIN elo_cache'
                 /\ elo_cache'[card].lastUpdated = now
                 /\ elo_cache'[card].elo =
                       IF card \in DOMAIN elo_cache THEN elo_cache[card].elo ELSE None
                 /\ \A other \in EloCards \ {card} :
                       CacheGet(elo_cache', other) = CacheGet(elo_cache, other)]_vars

(* A stale entry of CardA with a rating, refreshed by a lookup that found    *)
(* no rating on the page: the rating is still there.                         *)
StaleRatingKept ==
    /\ elo_call.card = CardA
    /\ elo_call.raised = NoException
    /\ elo_call.requests # <<>>
    /\ now > 0
    /\ CardA \in DOMAIN elo_cache
    /\ elo_cache[CardA] = [elo |-> Float(1400), lastUpdated |-> now]
    /\ \A id \in PageIds : pages[id] = NoElo

(***************************************************************************)
(* get_card_elo coroutines run together by asyncio.gather.  A coroutine    *)
(* gives up control only at an await that waits: the web requests of the   *)
(* lookup.  "async with self.lock" does not wait, as the lock is only held *)
(* across the assignment and so is free whenever it is asked for.          *)
(* call.co[i] is the i-th coroutine: its card, its position (start,        *)
(* awaiting the lookup, done, raised), the cache as it was when it         *)
(* started, and the value it returned.                                     *)
(***************************************************************************)
MaxCoroutines == 2

Coroutines == 1..MaxCoroutines

(* the dictionary line 58 tests, the coroutine having started on seen *)
CacheAtStart(seen, cache) == seen

CacheAtCheck(seen, cache) == cache

InitGather ==
    /\ CubeIdle
    /\ now \in {0, (StaleDays + 1) * TicksPerDay}
    /\ elo_cache \in LoadedCaches
    /\ scryfall_cache = Catalogue
    /\ pages \in [PageIds -> PageContents]
    /\ elo_call = NoCall
    /\ batch = "running"
    /\ lookup = NoLookup
    /\ elo_pickle = elo_cache
    /\ tasks = {}
    /\ fetched = {}
    /\ pipeline = [pc |-> "idle"]
    /\ data_dir = <<>>
    /\ scryfall_run = [pc |-> "idle"]
    /\ \E cards \in [Coroutines -> EloCards] :
          call = [op |-> "gather",
                  co |-> [i \in Coroutines |->
                            [card |-> cards[i], pc |-> "start", seen |-> <<>>,
                             value |-> None]]]

gatherFrame == <<now, scryfall_cache, pages, elo_call, batch, lookup,
                 elo_pickle, tasks, fetched, pipeline, data_dir, scryfall_run>>

(* lines 37-45: up to the first request of the lookup, or lines 37-51 when   *)
(* the entry is served from the cache                                        *)
CoroutineStart(i) ==
    /\ call.co[i].pc = "start"
    /\ IF NeedsUpdate(CacheGet(elo_cache, call.co[i].card), now)
       THEN call' = [call EXCEPT !.co[i].pc = "awaiting", !.co[i].seen = elo_cache]
       ELSE call' = [call EXCEPT !.co[i].pc = "done", !.co[i].seen = elo_cache,
                                 !.co[i].value = elo_cache[call.co[i].card].elo]
    /\ UNCHANGED elo_cache
    /\ UNCHANGED gatherFrame
    /\ UNCHANGED cubeVars

(* the lookup answers: lines 58-73 of update_card_elo and lines 46-51 of     *)
(* get_card_elo, without a wait in between                                   *)
CoroutineResume(i) ==
    /\ call.co[i].pc = "awaiting"
    /\ LET card == call.co[i].card
           e == get_card_elo_from_cube_cobra(card, scryfall_cache, pages)
           u == StoreElo(card, CacheAtCheck(call.co[i].seen, elo_cache), e, now)
           r == AfterUpdate(card, u)
       IN /\ elo_cache' = r.cache
          /\ call' = IF r.raised # NoException
                     THEN [call EXCEPT !.co[i].pc = "raised"]
                     ELSE [call EXCEPT !.co[i].pc = "done", !.co[i].value = r.value]
    /\ UNCHANGED gatherFrame
    /\ UNCHANGED cubeVars

NextGather ==
    \/ \E i \in Coroutines : CoroutineStart(i)
    \/ \E i \in Coroutines : CoroutineResume(i)
    \/ \E id \in PageIds : \E content \in PageContents : PageChange(id, content)

SpecGather == InitGather /\ [][NextGather]_vars

(* C22: whatever the order in which the coroutines run, no step replaces    *)
(* the non-None rating of a cache entry by None, or removes the entry.      *)
RatingNeverLost ==
    [][\A card \in DOMAIN elo_cache :
          elo_cache[card].elo # None
              => (card \in DOMAIN elo_cache' /\ elo_cache'[card].elo # None)]_vars

(* Two coroutines for CardA both started on a cache without CardA; one has  *)
(* stored the rating 1500, then the other's lookup found no rating.         *)
SecondLookupFoundNothing ==
    /\ \A i \in Coroutines :
          /\ call.co[i].card = CardA
          /\ call.co[i].pc = "done"
          /\ CardA \notin DOMAIN call.co[i].seen
    /\ \A id \in PageIds : pages[id] = NoElo
    /\ CardA \in DOMAIN elo_cache
    /\ elo_cache[CardA].elo = Float(1500)

(* C24: when update_elo_scores has returned, the file elo_cache.pickle      *)
(* equals the rating cache in memory: nothing was created or modified after *)
(* the save_cache of line 119.                                              *)
PickleEqualsCacheOnReturn ==
    batch = "done" => elo_pickle = elo_cache

(***************************************************************************)
(* CubeCombiner.combine_cubes_from_directory: the frequency columns.  A    *)
(* cube file is the list of its rows, one row a card of the cube's          *)
(* mainboard list as process_cube_data wrote it; the directory is the list *)
(* of its cube files.                                                      *)
(***************************************************************************)
CubeRows == [name : EloCards, maybeboard : BOOLEAN]

CubeFiles == UNION {[1..n -> CubeRows] : n \in 0..MaxRows}

CubeDirectories == UNION {[1..n -> CubeFiles] : n \in 1..MaxCubes}

remove_maybeboard_cards(fr) == SelectSeq(fr, LAMBDA row : ~row.maybeboard)

(* pd.concat of the chunks of the files from the i-th on *)
RECURSIVE ConcatChunks(_, _)
ConcatChunks(dir, i) ==
    IF i > Len(dir) THEN <<>>
    ELSE remove_maybeboard_cards(dir[i]) \o ConcatChunks(dir, i + 1)

(* groupby('name')['name'].transform('size'): the rows of the row's name *)
calculate_frequency(fr) ==
    [i \in DOMAIN fr |->
        [name |-> fr[i].name,
         Frequency |-> Cardinality({j \in DOMAIN fr : fr[j].name = fr[i].name})]]

(* len(list(Path(directory_path).glob('*.csv'))) *)
get_number_of_cubes_sampled(dir) == Len(dir)

(* Frequency / number_of_sampled_cubes, kept as the fraction *)
calculate_inclusion_rate(fr, dir) ==
    [i \in DOMAIN fr |->
        [name |-> fr[i].name, Frequency |-> fr[i].Frequency,
         InclusionRate |-> [num |-> fr[i].Frequency,
                            den |-> get_number_of_cubes_sampled(dir)]]]

InitCombine ==
    /\ CubeIdle
    /\ EloIdle
    /\ elo_pickle = <<>>
    /\ tasks = {}
    /\ fetched = {}
    /\ pipeline = [pc |-> "idle"]
    /\ data_dir = <<>>
    /\ scryfall_run = [pc |-> "idle"]
    /\ \E dir \in CubeDirectories :
          call = [op |-> "input", directory |-> dir, frame |-> <<>>]

(* lines 34-47 and 129-130: the chunks, their concatenation, the Frequency  *)
(* and Inclusion Rate columns                                                *)
CombineCubesFromDirectory ==
    /\ call.op = "input"
    /\ call' = [call EXCEPT
                  !.op = "combine_cubes_from_directory",
                  !.frame = calculate_inclusion_rate(
                               calculate_frequency(ConcatChunks(call.directory, 1)),
                               call.directory)]
    /\ UNCHANGED <<elo_pickle, tasks, fetched, pipeline, data_dir, scryfall_run>>
    /\ UNCHANGED cubeVars
    /\ UNCHANGED eloVars

NextCombine == CombineCubesFromDirectory

SpecCombine == InitCombine /\ [][NextCombine]_vars

(* C25: for every row of the combined frame, Frequency is at most the       *)
(* number of sampled cube files, and so the Inclusion Rate is within [0, 1]. *)
InclusionRateAtMostOne ==
    call.op = "combine_cubes_from_directory" =>
        \A i \in DOMAIN call.frame :
            /\ call.frame[i].Frequency <= Len(call.directory)
            /\ 0 <= call.frame[i].InclusionRate.num
            /\ call.frame[i].InclusionRate.num <= call.frame[i].InclusionRate.den

(***************************************************************************)
(* CubeCobraScraper.get_cube_data with "scrape" in the stages: one         *)
(* process_cube task a cube id, run together by asyncio.gather.  A task    *)
(* gives up control at its three awaits: the cube's list page, the RSS     *)
(* feed, and the feed again inside get_cube_weight.  call holds            *)
(*   pc            where get_cube_data is: gather, returned, raised        *)
(*   task          each task: its cube id and its position                 *)
(*   cube_weights  self.cube_weights;  csv: the cube files written         *)
(*   weights_file  the content of cube_weights.json, once written          *)
(***************************************************************************)
MaxTasks == 2

CubeIds == {"x", "y"}

(* What the list page of a cube turns out to be. *)
ListPages == {"cube json", "no script tag", "malformed json", "request failed"}

NotWritten == [written |-> FALSE, weights |-> <<>>]

Written(weights) == [written |-> TRUE, weights |-> weights]

InitScrape ==
    /\ CubeIdle
    /\ EloIdle
    /\ elo_pickle = <<>>
    /\ tasks = {}
    /\ fetched = {}
    /\ pipeline = [pc |-> "idle"]
    /\ data_dir = <<>>
    /\ scryfall_run = [pc |-> "idle"]
    /\ \E ids \in [1..MaxTasks -> CubeIds] :
          call = [op |-> "get_cube_data", pc |-> "gather",
                  task |-> [i \in 1..MaxTasks |-> [id |-> ids[i], pc |-> "list page"]],
                  cube_weights |-> <<>>, csv |-> {}, weights_file |-> NotWritten]

scrapeFrame == <<elo_pickle, tasks, fetched, pipeline, data_dir, scryfall_run>>

(* self.cube_weights[cube_identifier] = cube_weight *)
SetWeight(weights, id, w) ==
    [k \in DOMAIN weights \cup {id} |-> IF k = id THEN w ELSE weights[k]]

(* lines 140-152: the page arrives; only AttributeError (no script tag) is   *)
(* caught                                                                    *)
TaskListPage(i, page) ==
    /\ call.pc = "gather"
    /\ call.task[i].pc = "list page"
    /\ call' = [call EXCEPT !.task[i].pc =
                   IF page = "cube json" THEN "feed"
                   ELSE IF page = "no script tag" THEN "skipped"
                   ELSE "raised"]
    /\ UNCHANGED scrapeFrame
    /\ UNCHANGED cubeVars
    /\ UNCHANGED eloVars

(* line 154: the feed answers, or the request raises *)
TaskFeed(i, ok) ==
    /\ call.pc = "gather"
    /\ call.task[i].pc = "feed"
    /\ call' = [call EXCEPT !.task[i].pc = IF ok THEN "weight" ELSE "raised"]
    /\ UNCHANGED scrapeFrame
    /\ UNCHANGED cubeVars
    /\ UNCHANGED eloVars

(* lines 159-167: get_cube_weight answers (or raises); the weight is stored, *)
(* then process_cube_data writes the csv (or raises on a card without a      *)
(* required key)                                                             *)
TaskWeightAndCsv(i, weight_ok, w, csv_ok) ==
    /\ call.pc = "gather"
    /\ call.task[i].pc = "weight"
    /\ call' = IF ~weight_ok
               THEN [call EXCEPT !.task[i].pc = "raised"]
               ELSE IF ~csv_ok
               THEN [call EXCEPT !.task[i].pc = "raised",
                                 !.cube_weights = SetWeight(@, call.task[i].id, w)]
               ELSE [call EXCEPT !.task[i].pc = "done",
                                 !.cube_weights = SetWeight(@, call.task[i].id, w),
                                 !.csv = @ \cup {call.task[i].id}]
    /\ UNCHANGED scrapeFrame
    /\ UNCHANGED cubeVars
    /\ UNCHANGED eloVars

(* asyncio.gather has its results when every task has returned *)
SomeTaskFinished(task) == \E i \in DOMAIN task : task[i].pc \in {"done", "skipped"}

AllTasksFinished(task) == \A i \in DOMAIN task : task[i].pc \in {"done", "skipped"}

(* lines 85-88: gather returns and cube_weights.json is written *)
GatherReturns ==
    /\ call.pc = "gather"
    /\ AllTasksFinished(call.task)
    /\ call' = [call EXCEPT !.pc = "returned",
                            !.weights_file = Written(call.cube_weights)]
    /\ UNCHANGED scrapeFrame
    /\ UNCHANGED cubeVars
    /\ UNCHANGED eloVars

(* line 85: the exception of a task leaves gather and get_cube_data; the     *)
(* tasks still running are cancelled when asyncio.run closes the loop        *)
GatherRaises ==
    /\ call.pc = "gather"
    /\ \E i \in DOMAIN call.task : call.task[i].pc = "raised"
    /\ call' = [call EXCEPT !.pc = "raised"]
    /\ UNCHANGED scrapeFrame
    /\ UNCHANGED cubeVars
    /\ UNCHANGED eloVars

NextScrape ==
    \/ \E i \in 1..MaxTasks : \E page \in ListPages : TaskListPage(i, page)
    \/ \E i \in 1..MaxTasks : \E ok \in BOOLEAN : TaskFeed(i, ok)
    \/ \E i \in 1..MaxTasks : \E weight_ok, csv_ok \in BOOLEAN : \E w \in 1..MaxTasks :
          TaskWeightAndCsv(i, weight_ok, w, csv_ok)
    \/ GatherReturns
    \/ GatherRaises

SpecScrape == InitScrape /\ [][NextScrape]_vars

ScrapeOver == call.pc \in {"returned", "raised"}

(* C26: a cube whose processing fails is skipped, without a csv file or a   *)
(* weight of its own; every other cube is still processed, and              *)
(* cube_weights.json is still written.                                      *)
FailedCubeSkipped ==
    ScrapeOver =>
        /\ call.weights_file.written
        /\ \A i \in DOMAIN call.task :
              /\ call.task[i].pc \in {"done", "skipped", "raised"}
              /\ (call.task[i].pc \in {"skipped", "raised"}
                  /\ \A j \in DOMAIN call.task :
                        call.task[j].id = call.task[i].id
                            => call.task[j].pc \in {"skipped", "raised"})
                    => /\ call.task[i].id \notin call.csv
                       /\ call.task[i].id \notin DOMAIN call.cube_weights

(* C27: cube_weights.json is written only when every process_cube task has  *)
(* finished, and it holds a weight for exactly the cubes whose csv file was *)
(* written in this run.                                                     *)
WeightsFileMatchesCsvFiles ==
    call.weights_file.written =>
        /\ AllTasksFinished(call.task)
        /\ DOMAIN call.weights_file.weights = call.csv
        /\ call.weights_file.weights = call.cube_weights

OneCubeSkippedOneWritten ==
    /\ call.weights_file.written
    /\ \E i, j \in DOMAIN call.task :
          /\ call.task[i].pc = "skipped"
          /\ call.task[j].pc = "done"
          /\ call.task[i].id # call.task[j].id
    /\ Cardinality(DOMAIN call.weights_file.weights) = 1

(* C28: when every per-colour count dict given to calculate_average_dict    *)
(* sums to the same card_count, the averaged quotas sum to card_count too.  *)
AverageKeepsBudget ==
    call.op = "average_card_counts" =>
        \A n \in 0..(MaxCardCount * Cardinality(MergeColors)) :
            (\A i \in DOMAIN call.card_count_dicts :
                SumCounts(call.card_count_dicts[i]) = n)
                => SumCounts(call.avg_dict) = n

====
